---------------------------- MODULE Spec2Model ----------------------------
(*
  A model of src/safe_t_logic.py: the order-identifier validator, the SAFE-T
  deadline calculator and classifier, the appeal-draft templates and the
  dashboard aggregator.

  Representation.
    * A Python str is a sequence of one-character strings, so that the
      regular expressions of the code can be run character by character.
    * An argument that may be absent is a tagged value: Str(s) or NoneVal.
    * A datetime is a record [year, month, day, hour, minute, second,
      microsecond]; a timedelta is a normalised record [days, seconds,
      microseconds], as in CPython's datetime module.
    * The float returned by timedelta.total_seconds() is the exact rational
      whole + micro / 10^6, kept as the record [whole, micro] with
      0 <= micro < 10^6.  Inside the year window of the model the float
      operations of the code (//, %, <=) are exact on these values.
    * A dict is a TLA+ record; reading a key that is not in its DOMAIN raises
      KeyError.
    * The Chinese text of the messages is transliterated to ASCII (the module
      language has no non-ASCII string literals); no property depends on it.
*)
EXTENDS Integers, Sequences, FiniteSets, TLC

VARIABLES
    pc,              \* "idle": no call in progress; "loop": in the for loop of line 178; "returned" / "raised": how the call ended
    fn,              \* the function last called
    order_id,        \* argument of check_order_id_format / generate_ai_appeal_draft
    reason_code,     \* argument of generate_ai_appeal_draft
    order_date_str,  \* argument of check_safet_deadline
    now,             \* first utcnow() reading of check_safet_deadline (line 42)
    now2,            \* second utcnow() reading of check_safet_deadline (line 43)
    arg_orders,      \* argument of generate_dashboard_data
    test_orders,     \* its local test_orders: the argument, or the default data
    idx,             \* position of the for loop in test_orders (from 1)
    clocks,          \* the pairs of utcnow() readings taken so far in the loop
    ret              \* [ok, result, draft, dashboard, exc]: what the call produced

vars == <<pc, fn, order_id, reason_code, order_date_str, now, now2,
          arg_orders, test_orders, idx, clocks, ret>>

-----------------------------------------------------------------------------
(* Bounds of the model *)

\* Order dates are taken from the years MinYear..MaxYear, so that every
\* difference of two instants fits the 32-bit integers of the model checker
\* and the float arithmetic of the code is exact.
MinYear == 1970
MaxYear == 2090
\* The clock is read in the months 1..MaxClockMonth of the clock year.
MaxClockMonth == 3
\* Longest batch given to generate_dashboard_data.
MaxOrders == 3

-----------------------------------------------------------------------------
(* Strings *)

Digits == <<"0", "1", "2", "3", "4", "5", "6", "7", "8", "9">>

\* \d of the re module, restricted to the ASCII digits.
IsDigit(c) == \E i \in 1..10 : Digits[i] = c

DigitVal(c) == (CHOOSE i \in 1..10 : Digits[i] = c) - 1

\* [a-b] over the ASCII digits.
InRange(c, a, b) == IsDigit(c) /\ DigitVal(c) >= a /\ DigitVal(c) <= b

\* s[i], or "" past the end: no pattern item matches there.
At(s, i) == IF i >= 1 /\ i <= Len(s) THEN s[i] ELSE ""

\* 1, 10, 100, 1000: the weight of the k-th digit from the right.
Pow10 == <<1, 10, 100, 1000>>

\* The k-th character from the right as a digit; a blank (which int()
\* strips) or no character counts 0.
DigitFromRight(s, k) ==
    IF k <= Len(s) /\ IsDigit(s[Len(s) + 1 - k]) THEN DigitVal(s[Len(s) + 1 - k]) * Pow10[k] ELSE 0

\* int(s) for up to four digits, optionally after a blank.
ToInt(s) ==
    DigitFromRight(s, 1) + DigitFromRight(s, 2) + DigitFromRight(s, 3) + DigitFromRight(s, 4)

\* The only element of a one-element set.  { f(x) : x \in {e} } computes e
\* once and names its value x; Only takes f(x) out of the set.
Only(S) == CHOOSE x \in S : TRUE

Str(s) == [kind |-> "str", val |-> s]
NoneVal == [kind |-> "NoneType", val |-> <<>>]

\* Python truthiness of None and of a str.
Truthy(v) == v.kind = "str" /\ Len(v.val) > 0

-----------------------------------------------------------------------------
(* check_order_id_format *)

\* n digits from position p on.
MatchDigits(s, p, n) == \A i \in p..(p + n - 1) : IsDigit(At(s, i))

\* The $ of the re module (no MULTILINE) at position p: at the end of the
\* string, or just before a newline that is the last character.
DollarAt(s, p) == \/ p = Len(s) + 1
                  \/ p = Len(s) /\ s[p] = "\n"

\* re.compile(r'^\d{3}-\d{4}-\d{3}$').match(s) is not None
OrderIdRegMatch(s) ==
    /\ MatchDigits(s, 1, 3)
    /\ At(s, 4) = "-"
    /\ MatchDigits(s, 5, 4)
    /\ At(s, 9) = "-"
    /\ MatchDigits(s, 10, 3)
    /\ DollarAt(s, 13)

check_order_id_format(oid) ==
    IF ~Truthy(oid) THEN FALSE ELSE OrderIdRegMatch(oid.val)

-----------------------------------------------------------------------------
(* The proleptic Gregorian calendar of the datetime module *)

IsLeap(y) == y % 4 = 0 /\ (y % 100 # 0 \/ y % 400 = 0)

DaysInMonth(y, m) ==
    IF m = 2 THEN (IF IsLeap(y) THEN 29 ELSE 28)
    ELSE IF m \in {4, 6, 9, 11} THEN 30 ELSE 31

\* Days before January 1st of year y.
DaysBeforeYear(y) ==
    (y - 1) * 365 + ((y - 1) \div 4) - ((y - 1) \div 100) + ((y - 1) \div 400)

\* Days of a common year before the first day of each month.
DaysBeforeMonthTable == <<0, 31, 59, 90, 120, 151, 181, 212, 243, 273, 304, 334>>

\* Days of year y before the first day of month m.
DaysBeforeMonth(y, m) ==
    DaysBeforeMonthTable[m] + (IF m > 2 /\ IsLeap(y) THEN 1 ELSE 0)

\* date.toordinal(): January 1st of year 1 is day 1.
Ymd2Ord(y, m, d) == DaysBeforeYear(y) + DaysBeforeMonth(y, m) + d

\* date.fromordinal(n), as <<year, month, day>>.
Ord2Ymd(n) ==
    LET y == CHOOSE c \in (n \div 366)..((n \div 365) + 1) :
                 DaysBeforeYear(c) < n /\ n <= DaysBeforeYear(c + 1)
        r == n - DaysBeforeYear(y)
        m == CHOOSE c \in 1..12 :
                 DaysBeforeMonth(y, c) < r /\ r <= DaysBeforeMonth(y, c) + DaysInMonth(y, c)
    IN  <<y, m, r - DaysBeforeMonth(y, m)>>

\* The date constructor accepts years 1..9999 and the days of the month.
ValidDate(y, m, d) ==
    /\ y >= 1 /\ y <= 9999
    /\ m >= 1 /\ m <= 12
    /\ d >= 1 /\ d <= DaysInMonth(y, m)

Datetime(y, mo, d, h, mi, s, us) ==
    [year |-> y, month |-> mo, day |-> d,
     hour |-> h, minute |-> mi, second |-> s, microsecond |-> us]

\* timedelta(days, seconds, microseconds): the constructor normalises to
\* 0 <= microseconds < 10^6 and 0 <= seconds < 86400, carrying with floor division.
Timedelta(d, s, us) ==
    LET s1 == s + (us \div 1000000)
    IN  [days |-> d + (s1 \div 86400), seconds |-> s1 % 86400, microseconds |-> us % 1000000]

\* The instant of a datetime as the timedelta since day 0, as __add__ and __sub__ compute it.
ToDelta(dt) ==
    Timedelta(Ymd2Ord(dt.year, dt.month, dt.day),
              dt.hour * 3600 + dt.minute * 60 + dt.second, dt.microsecond)

\* datetime + timedelta
DatetimeAdd(dt, td) ==
    LET a   == ToDelta(dt)
        sum == Timedelta(a.days + td.days, a.seconds + td.seconds,
                         a.microseconds + td.microseconds)
        ymd == Ord2Ymd(sum.days)
    IN  Datetime(ymd[1], ymd[2], ymd[3], sum.seconds \div 3600,
                 (sum.seconds % 3600) \div 60, sum.seconds % 60, sum.microseconds)

\* datetime - datetime
DatetimeSub(a, b) ==
    LET x == ToDelta(a)
        y == ToDelta(b)
    IN  Timedelta(x.days - y.days, x.seconds - y.seconds, x.microseconds - y.microseconds)

\* datetime.replace(year=, month=, day=, hour=, minute=, second=, microsecond=):
\* every field the caller names is overwritten, the others are kept.
Replace(dt, y, mo, d, h, mi, s, us) ==
    [dt EXCEPT !.year = y, !.month = mo, !.day = d,
               !.hour = h, !.minute = mi, !.second = s, !.microsecond = us]

\* timedelta.total_seconds(): days * 86400 + seconds + microseconds / 10^6.
TotalSeconds(td) == [whole |-> td.days * 86400 + td.seconds, micro |-> td.microseconds]

\* x // n and x % n of a float x by a whole number n > 0, and x <= 0.
FloatFloorDiv(x, n) == x.whole \div n
FloatMod(x, n) == [whole |-> x.whole % n, micro |-> x.micro]
FloatLeZero(x) == x.whole < 0 \/ (x.whole = 0 /\ x.micro = 0)

-----------------------------------------------------------------------------
(* datetime.strptime(order_date_str, "%Y-%m-%d") *)

\* The alternatives of the directives %m and %d in the order the regular
\* expression of _strptime tries them; each is <<length, matches at p>>.
\*   %m: 1[0-2] | 0[1-9] | [1-9]
MonthAlt(s, p, i) ==
    CASE i = 1 -> <<2, At(s, p) = "1" /\ InRange(At(s, p + 1), 0, 2)>>
      [] i = 2 -> <<2, At(s, p) = "0" /\ InRange(At(s, p + 1), 1, 9)>>
      [] i = 3 -> <<1, InRange(At(s, p), 1, 9)>>

\*   %d: 3[0-1] | [1-2]\d | 0[1-9] | [1-9] | " "[1-9]
DayAlt(s, p, j) ==
    CASE j = 1 -> <<2, At(s, p) = "3" /\ InRange(At(s, p + 1), 0, 1)>>
      [] j = 2 -> <<2, InRange(At(s, p), 1, 2) /\ IsDigit(At(s, p + 1))>>
      [] j = 3 -> <<2, At(s, p) = "0" /\ InRange(At(s, p + 1), 1, 9)>>
      [] j = 4 -> <<1, InRange(At(s, p), 1, 9)>>
      [] j = 5 -> <<2, At(s, p) = " " /\ InRange(At(s, p + 1), 1, 9)>>

\* Whether \d\d\d\d-(%m alternative i)-(%d alternative j) matches at the start of s.
FormatMatches(s, i, j) ==
    /\ MatchDigits(s, 1, 4)
    /\ At(s, 5) = "-"
    /\ MonthAlt(s, 6, i)[2]
    /\ At(s, 6 + MonthAlt(s, 6, i)[1]) = "-"
    /\ DayAlt(s, 7 + MonthAlt(s, 6, i)[1], j)[2]

\* The pairs of alternatives that match.
FormatChoices(s) == {c \in (1..3) \X (1..5) : FormatMatches(s, c[1], c[2])}

\* The one backtracking finds first: the earliest month alternative, then
\* the earliest day alternative.
FirstChoice(choices) ==
    CHOOSE c \in choices :
        \A o \in choices : c[1] < o[1] \/ (c[1] = o[1] /\ c[2] <= o[2])

ValueError == [ok |-> FALSE, value |-> Datetime(1, 1, 1, 0, 0, 0, 0)]

\* What strptime does with the match of month alternative c[1] and day
\* alternative c[2]: ValueError when data remains after the match or when
\* the fields are no date of the calendar, else the datetime at 00:00:00.
Converted(s, c) ==
    LET mlen == MonthAlt(s, 6, c[1])[1]
        dend == 6 + mlen + DayAlt(s, 7 + mlen, c[2])[1]
    IN  IF Len(s) # dend THEN ValueError
        ELSE Only({ IF ~ValidDate(ymd[1], ymd[2], ymd[3]) THEN ValueError
                    ELSE [ok |-> TRUE, value |-> Datetime(ymd[1], ymd[2], ymd[3], 0, 0, 0, 0)] :
                    ymd \in { << ToInt(SubSeq(s, 1, 4)),
                                 ToInt(SubSeq(s, 6, 5 + mlen)),
                                 ToInt(SubSeq(s, 7 + mlen, dend)) >> } })

\* strptime: ValueError when the format does not match, else the conversion
\* of the first match.
strptime(s) ==
    Only({ IF choices = {} THEN ValueError ELSE Converted(s, FirstChoice(choices)) :
           choices \in {FormatChoices(s)} })

-----------------------------------------------------------------------------
(* check_safet_deadline *)

\* timedelta(days=30): the claim window of the policy.
PolicyWindowDays == 30
\* elif days_left <= 5: the urgency threshold.
UrgentDaysThreshold == 5

\* The result of the except ValueError branch.
ErrorResult ==
    [status        |-> "ERROR",
     message       |-> "Order date format error! Please enter YYYY-MM-DD",
     days_left     |-> 0,
     hours_left    |-> 0,
     time_left_str |-> "",
     color         |-> "orange"]

\* A variant of the replace() call without microsecond=0: the deadline
\* would carry the microseconds of the second clock reading.
UtcOrderDate_KeepsMicrosecond(order_date, reading) ==
    Replace(reading, order_date.year, order_date.month, order_date.day,
            0, 0, 0, reading.microsecond)

\* utcnow().replace(year=..., month=..., day=..., hour=0, minute=0, second=0,
\* microsecond=0): the order date written over a clock reading of its own.
UtcOrderDate(order_date, reading) ==
    Replace(reading, order_date.year, order_date.month, order_date.day, 0, 0, 0, 0)

\* deadline = utc_order_date + timedelta(days=30)
Deadline(utc_order_date) == DatetimeAdd(utc_order_date, Timedelta(PolicyWindowDays, 0, 0))

\* diff_seconds = (deadline - now).total_seconds()
DiffSeconds(deadline, reading) == TotalSeconds(DatetimeSub(deadline, reading))

\* A variant that truncates toward zero, int(diff_seconds / 86400), where the
\* source rounds down with //.
DaysLeft_Truncating(diff_seconds) ==
    IF diff_seconds.whole >= 0 THEN diff_seconds.whole \div (24 * 3600)
    ELSE IF diff_seconds.micro = 0 THEN 0 - ((0 - diff_seconds.whole) \div (24 * 3600))
    ELSE 0 - ((0 - diff_seconds.whole - 1) \div (24 * 3600))

\* days_left = int(diff_seconds // (24 * 3600))
DaysLeft(diff_seconds) == FloatFloorDiv(diff_seconds, 24 * 3600)

\* hours_left = int((diff_seconds % (24 * 3600)) // 3600)
HoursLeft(diff_seconds) == FloatFloorDiv(FloatMod(diff_seconds, 24 * 3600), 3600)

\* f"{days_left}d {hours_left}h" if days_left > 0 else f"{hours_left}h"
TimeLeftStrEn(days_left, hours_left) ==
    IF days_left > 0 THEN ToString(days_left) \o "d " \o ToString(hours_left) \o "h"
    ELSE ToString(hours_left) \o "h"

\* The Chinese counterpart, with the two units transliterated.
TimeLeftStrZh(days_left, hours_left) ==
    IF days_left > 0 THEN ToString(days_left) \o "tian" \o ToString(hours_left) \o "xiaoshi"
    ELSE ToString(hours_left) \o "xiaoshi"

\* A variant of the classification with "diff_seconds < 0" for the expiry
\* test: the deadline instant itself would not be EXPIRED.
StatusOf_StrictExpiry(diff_seconds, days_left) ==
    IF diff_seconds.whole < 0 THEN "EXPIRED"
    ELSE IF days_left <= UrgentDaysThreshold THEN "URGENT"
    ELSE "SAFE"

\* A variant with "days_left < 5" for the urgency test: five days and some
\* hours would be SAFE.
StatusOf_UrgentBelowFive(diff_seconds, days_left) ==
    IF FloatLeZero(diff_seconds) THEN "EXPIRED"
    ELSE IF days_left < UrgentDaysThreshold THEN "URGENT"
    ELSE "SAFE"

\* The status decision of step 4.
StatusOf(diff_seconds, days_left) ==
    IF FloatLeZero(diff_seconds) THEN "EXPIRED"
    ELSE IF days_left <= UrgentDaysThreshold THEN "URGENT"
    ELSE "SAFE"

ColorOf(status) ==
    CASE status = "EXPIRED" -> "gray"
      [] status = "URGENT"  -> "red"
      [] status = "SAFE"    -> "green"

MessageEn(status, time_left_str_en) ==
    CASE status = "EXPIRED" -> "Expired! Triggered 2026/02/16 new policy 30-day automatic rejection rule, UTC time overdue."
      [] status = "URGENT"  -> "Urgent! Only " \o time_left_str_en \o " remaining in processing window, prepare evidence chain immediately (weight/logistics/serial number)."
      [] status = "SAFE"    -> "Safe! " \o time_left_str_en \o " remaining in processing window, arrange claim operations reasonably."

MessageZh(status, time_left_str_zh) ==
    CASE status = "EXPIRED" -> "zh: expired, 30-day automatic rejection rule, UTC time overdue"
      [] status = "URGENT"  -> "zh: urgent, only " \o time_left_str_zh \o " left, prepare the evidence chain"
      [] status = "SAFE"    -> "zh: safe, " \o time_left_str_zh \o " left"

\* Steps 3 and 4 on the difference computed at line 56: the decomposition,
\* the strings and the result of the status branch taken.
Classified(diff_seconds) ==
    LET days_left  == DaysLeft(diff_seconds)
        hours_left == HoursLeft(diff_seconds)
        zh         == TimeLeftStrZh(days_left, hours_left)
        en         == TimeLeftStrEn(days_left, hours_left)
        status     == StatusOf(diff_seconds, days_left)
    IN  [status           |-> status,
         message_zh       |-> MessageZh(status, zh),
         message_en       |-> MessageEn(status, en),
         days_left        |-> days_left,
         hours_left       |-> hours_left,
         time_left_str_zh |-> zh,
         time_left_str_en |-> en,
         color            |-> ColorOf(status)]

\* The function, given its argument and the two clock readings it takes
\* (reading1 at line 42, reading2 at line 43) when the date parses.
check_safet_deadline(date_str, reading1, reading2) ==
    Only({ IF ~parsed.ok THEN ErrorResult
           ELSE Only({ Classified(diff_seconds) :
                       diff_seconds \in
                           {DiffSeconds(Deadline(UtcOrderDate(parsed.value, reading2)), reading1)} }) :
           parsed \in {strptime(date_str)} })

-----------------------------------------------------------------------------
(* generate_ai_appeal_draft *)

FormatRejection == <<"Invalid Order ID format! Please enter like 114-9283-001">>
UnsupportedReason == <<"Unsupported claim reason! Please select EMPTY_BOX/DAMAGED/SWITCHED.">>

TemplateKeys == {"EMPTY_BOX", "DAMAGED", "SWITCHED"}

TemplateBody(key) ==
    CASE key = "EMPTY_BOX" -> "The buyer returned an EMPTY PACKAGE, which is a suspicious return behavior. Our outbound shipping weight was 0.8kg, but the returned weight was only 0.05kg (no product included).\nWe request Amazon to review this claim and arrange the corresponding reimbursement as soon as possible.\nThank you for your processing!"
      [] key = "DAMAGED"   -> "The product was returned in unsellable condition: it is heavily used with obvious scratches and the original packaging is missing.\nAccording to Amazon's rules, we request a 50% restocking fee for this order. Please review and confirm.\nThank you for your processing!"
      [] key = "SWITCHED"  -> "The item returned by the buyer is NOT the one we shipped: the serial number on the returned item does not match our outbound delivery records.\nThis is a clear product switching behavior, we request Amazon to investigate and arrange full reimbursement.\nThank you for your processing!"

\* templates[key]: the f-string with {order_id} substituted; the text is the
\* sequence of its fixed pieces and of the characters of the identifier.
Template(key, oid) ==
    <<"Dear Amazon Support,\nThis is a formal SAFE-T claim for Order ">>
        \o oid.val
        \o <<" (adapt to Amazon 2026 30-day new policy).\n", TemplateBody(key)>>

\* templates.get(reason_code, <unsupported>)
TemplatesGet(reason, oid) ==
    IF reason \in TemplateKeys THEN Template(reason, oid) ELSE UnsupportedReason

\* A variant that looks the reason code up before it checks the identifier.
generate_ai_appeal_draft_ReasonFirst(reason, oid) ==
    IF reason \notin TemplateKeys THEN UnsupportedReason
    ELSE IF ~check_order_id_format(oid) THEN FormatRejection
    ELSE Template(reason, oid)

generate_ai_appeal_draft(reason, oid) ==
    IF ~check_order_id_format(oid) THEN FormatRejection
    ELSE TemplatesGet(reason, oid)

-----------------------------------------------------------------------------
(* generate_dashboard_data *)

Order(id, date) == [order_id |-> Str(id), order_date |-> date]

\* The default test data of lines 164-168.
DefaultOrders ==
    << Order(<<"1","1","4","-","9","2","8","3","-","0","0","1">>, <<"2","0","2","6","-","0","2","-","1","0">>),
       Order(<<"2","2","5","-","8","7","6","5","-","0","0","2">>, <<"2","0","2","6","-","0","1","-","0","5">>),
       Order(<<"3","3","6","-","7","6","5","4","-","0","0","3">>, <<"2","0","2","6","-","0","2","-","0","1">>) >>

\* if not test_orders: test_orders = <default data>
EffectiveOrders(orders) == IF Len(orders) = 0 THEN DefaultOrders ELSE orders

\* The dashboard of lines 170-176.
NewDashboard(orders) ==
    [total_orders   |-> Len(orders),
     expired_orders |-> 0,
     urgent_orders  |-> 0,
     safe_orders    |-> 0,
     order_details  |-> <<>>]

\* The keys the loop body reads from the result, in the order it reads them.
DetailKeys == <<"status", "time_left_str_zh", "time_left_str_en", "message_zh", "message_en">>

\* Whether building the detail record of lines 184-192 raises KeyError.
DetailRaises(result) == \E i \in 1..Len(DetailKeys) : DetailKeys[i] \notin DOMAIN result

Detail(order, result) ==
    [order_id     |-> order.order_id,
     order_date   |-> order.order_date,
     status       |-> result.status,
     time_left_zh |-> result.time_left_str_zh,
     time_left_en |-> result.time_left_str_en,
     message_zh   |-> result.message_zh,
     message_en   |-> result.message_en]

\* A variant of the counting chain without its SAFE branch.
Count_SafeUncounted(dashboard, status) ==
    IF status = "EXPIRED" THEN [dashboard EXCEPT !.expired_orders = @ + 1]
    ELSE IF status = "URGENT" THEN [dashboard EXCEPT !.urgent_orders = @ + 1]
    ELSE dashboard

\* Lines 194-199: the counter of the status, if it has one.
Count(dashboard, status) ==
    IF status = "EXPIRED" THEN [dashboard EXCEPT !.expired_orders = @ + 1]
    ELSE IF status = "URGENT" THEN [dashboard EXCEPT !.urgent_orders = @ + 1]
    ELSE IF status = "SAFE" THEN [dashboard EXCEPT !.safe_orders = @ + 1]
    ELSE dashboard

\* The body of the for loop on one order; reading is the pair of clock
\* readings check_safet_deadline takes there; acc holds the dashboard and
\* the exception raised, if any.
LoopBody(order, reading, acc) ==
    IF ~check_order_id_format(order.order_id) THEN acc
    ELSE Only({ IF DetailRaises(result) THEN [acc EXCEPT !.exc = "KeyError"]
                ELSE [acc EXCEPT !.dashboard =
                         Count([@ EXCEPT !.order_details = Append(@, Detail(order, result))],
                               result.status)] :
                result \in {check_safet_deadline(order.order_date, reading[1], reading[2])} })

-----------------------------------------------------------------------------
(* The inputs of the model *)

Subst(s, i, c) == [s EXCEPT ![i] = c]
Delete(s, i) == SubSeq(s, 1, i - 1) \o SubSeq(s, i + 1, Len(s))
Insert(s, i, c) == SubSeq(s, 1, i - 1) \o <<c>> \o SubSeq(s, i, Len(s))

\* s and every string one edit away from it: one character replaced by,
\* or inserted from, the alphabet, or one character deleted.
Edits(s, alphabet) ==
    {s} \cup {Subst(s, i, c) : i \in 1..Len(s), c \in alphabet}
        \cup {Insert(s, i, c) : i \in 1..(Len(s) + 1), c \in alphabet}
        \cup {Delete(s, i) : i \in 1..Len(s)}

IdAlphabet == {"7", "-", "a", " ", "\n"}

\* Identifiers: the one of the documentation and its edits, those of the
\* script's own test list, the empty string and an absent value.
OrderIdInputs ==
    {Str(s) : s \in Edits(<<"1","1","4","-","9","2","8","3","-","0","0","1">>, IdAlphabet)}
    \cup {Str(<<"1","2","3","4","5","6">>),
          Str(<<"a","b","c","-","1","2","3","4","-","5","6","7">>),
          Str(<<"4","4","7","-","8","9","0","1","-","0","0","4">>),
          Str(<<>>), NoneVal}

ReasonInputs == {"EMPTY_BOX", "DAMAGED", "SWITCHED", "FOO", ""}

DateAlphabet == {"0", "1", "3", "-", " ", "/", "\n"}

DateCandidates ==
    Edits(<<"2","0","2","6","-","0","2","-","1","0">>, DateAlphabet)
    \cup { <<"2","0","2","6","-","0","1","-","0","5">>,
           <<"2","0","2","6","-","0","2","-","0","1">>,
           <<"2","0","2","4","-","0","2","-","2","9">>,
           <<"2","0","2","5","-","0","2","-","2","9">>,
           <<"2","0","2","6","-","0","2","-"," ","5">>,
           <<"2","0","2","6","-","1","-","5">>,
           <<"2","0","2","6","0","2","1","0">>,
           <<"1","0","/","0","2","/","2","0","2","6">>,
           <<>> }

\* Date strings: the candidates that do not parse, and those that parse to
\* a date of the year window.
DateInputs ==
    {s \in DateCandidates :
        strptime(s).ok => (strptime(s).value.year >= MinYear /\ strptime(s).value.year <= MaxYear)}

ClockYears == {2026}

\* Times of day at which the clock is read: <<hour, minute, second, microsecond>>.
ClockTimes ==
    { <<0, 0, 0, 0>>, <<0, 0, 0, 1>>, <<1, 0, 0, 0>>, <<12, 30, 30, 500000>>,
      <<23, 59, 59, 0>>, <<23, 59, 59, 999999>> }

ClockValues ==
    UNION { UNION { { Datetime(y, m, d, t[1], t[2], t[3], t[4]) :
                        d \in 1..DaysInMonth(y, m), t \in ClockTimes } :
                    m \in 1..MaxClockMonth } :
            y \in ClockYears }

\* How far the clock advances between the two readings of one call.
Advances ==
    { Timedelta(0, 0, 0), Timedelta(0, 0, 1), Timedelta(1, 3600, 0),
      Timedelta(400, 0, 0) }

\* The batches of the aggregator: claims with a valid identifier and date,
\* one with a malformed identifier, one with a malformed date.
DashOrders ==
    { DefaultOrders[1], DefaultOrders[2],
      Order(<<"1","2","3","4","5","6">>, <<"2","0","2","6","-","0","2","-","0","1">>),
      Order(<<"3","3","6","-","7","6","5","4","-","0","0","3">>, <<"2","0","2","6","/","0","2","/","0","1">>) }

Batches == UNION { [1..n -> DashOrders] : n \in 0..MaxOrders }

DashClock ==
    { Datetime(2026, 2, 10, 0, 0, 0, 0), Datetime(2026, 3, 8, 12, 30, 30, 500000),
      Datetime(2026, 3, 12, 0, 0, 0, 0) }

DashAdvances == { Timedelta(0, 0, 1), Timedelta(1, 0, 0) }

DashReadings == { <<t, DatetimeAdd(t, a)>> : t \in DashClock, a \in DashAdvances }

NoClock == Datetime(1, 1, 1, 0, 0, 0, 0)

\* Whether check_safet_deadline, called for this order, reads the clock.
ReadsClock(order) ==
    check_order_id_format(order.order_id) /\ strptime(order.order_date).ok

-----------------------------------------------------------------------------
(* The state machine: one call at a time.  A call is one action, except
   generate_dashboard_data, whose for loop takes one step per order. *)

NoRet ==
    [ok |-> FALSE, result |-> [status |-> "none"], draft |-> <<>>,
     dashboard |-> NewDashboard(<<>>), exc |-> "none"]

Init ==
    /\ pc = "idle"
    /\ fn = "none"
    /\ order_id = NoneVal
    /\ reason_code = ""
    /\ order_date_str = <<>>
    /\ now = NoClock
    /\ now2 = NoClock
    /\ arg_orders = <<>>
    /\ test_orders = <<>>
    /\ idx = 0
    /\ clocks = <<>>
    /\ ret = NoRet

CheckOrderIdFormat ==
    /\ pc = "idle"
    /\ \E oid \in OrderIdInputs :
        /\ order_id' = oid
        /\ ret' = [NoRet EXCEPT !.ok = check_order_id_format(oid)]
    /\ pc' = "returned"
    /\ fn' = "check_order_id_format"
    /\ UNCHANGED <<reason_code, order_date_str, now, now2, arg_orders, test_orders, idx, clocks>>

CheckSafetDeadline ==
    /\ pc = "idle"
    /\ \E s \in DateInputs :
        /\ order_date_str' = s
        /\ IF strptime(s).ok
           THEN \E t \in ClockValues, a \in Advances :
                    /\ now' = t
                    /\ now2' = DatetimeAdd(t, a)
                    /\ ret' = [NoRet EXCEPT !.result = check_safet_deadline(s, t, DatetimeAdd(t, a))]
           ELSE /\ UNCHANGED <<now, now2>>
                /\ ret' = [NoRet EXCEPT !.result = check_safet_deadline(s, NoClock, NoClock)]
    /\ pc' = "returned"
    /\ fn' = "check_safet_deadline"
    /\ UNCHANGED <<order_id, reason_code, arg_orders, test_orders, idx, clocks>>

GenerateAiAppealDraft ==
    /\ pc = "idle"
    /\ \E reason \in ReasonInputs, oid \in OrderIdInputs :
        /\ reason_code' = reason
        /\ order_id' = oid
        /\ ret' = [NoRet EXCEPT !.draft = generate_ai_appeal_draft(reason, oid)]
    /\ pc' = "returned"
    /\ fn' = "generate_ai_appeal_draft"
    /\ UNCHANGED <<order_date_str, now, now2, arg_orders, test_orders, idx, clocks>>

\* Lines 162-176: the default data for an empty (or absent) argument, and the
\* dashboard before the loop.
DashboardEnter ==
    /\ pc = "idle"
    /\ \E orders \in Batches :
        /\ arg_orders' = orders
        /\ test_orders' = EffectiveOrders(orders)
        /\ ret' = [NoRet EXCEPT !.dashboard = NewDashboard(EffectiveOrders(orders))]
    /\ idx' = 1
    /\ pc' = "loop"
    /\ fn' = "generate_dashboard_data"
    /\ UNCHANGED <<order_id, reason_code, order_date_str, now, now2, clocks>>

\* Lines 178-199: the loop body on the next order.  An exception leaves the
\* function; the dashboard built so far is lost with it.
DashboardIterate ==
    /\ pc = "loop"
    /\ idx <= Len(test_orders)
    /\ \E reading \in (IF ReadsClock(test_orders[idx]) THEN DashReadings ELSE {<<NoClock, NoClock>>}) :
        /\ clocks' = IF ReadsClock(test_orders[idx]) THEN Append(clocks, reading) ELSE clocks
        /\ ret' = LoopBody(test_orders[idx], reading, ret)
    /\ pc' = IF ret'.exc = "none" THEN "loop" ELSE "raised"
    /\ idx' = idx + 1
    /\ UNCHANGED <<fn, order_id, reason_code, order_date_str, now, now2, arg_orders, test_orders>>

\* Line 201: return dashboard.
DashboardReturn ==
    /\ pc = "loop"
    /\ idx > Len(test_orders)
    /\ pc' = "returned"
    /\ UNCHANGED <<fn, order_id, reason_code, order_date_str, now, now2, arg_orders,
                   test_orders, idx, clocks, ret>>

\* The caller has taken the result (or the exception): the next call may start.
NextCall ==
    /\ pc \in {"returned", "raised"}
    /\ pc' = "idle"
    /\ fn' = "none"
    /\ order_id' = NoneVal
    /\ reason_code' = ""
    /\ order_date_str' = <<>>
    /\ now' = NoClock
    /\ now2' = NoClock
    /\ arg_orders' = <<>>
    /\ test_orders' = <<>>
    /\ idx' = 0
    /\ clocks' = <<>>
    /\ ret' = NoRet

Next ==
    \/ CheckOrderIdFormat
    \/ CheckSafetDeadline
    \/ GenerateAiAppealDraft
    \/ DashboardEnter
    \/ DashboardIterate
    \/ DashboardReturn
    \/ NextCall

Spec == Init /\ [][Next]_vars

-----------------------------------------------------------------------------
(* What the properties are stated with: the calendar facts of a call of
   check_safet_deadline, read off the state without the arithmetic of the
   function. *)

DeadlineCallDone == fn = "check_safet_deadline" /\ pc = "returned"

\* The order date of the call, where the argument parses.
ParsedOrderDates ==
    IF DeadlineCallDone
    THEN { parsed.value : parsed \in { p \in {strptime(order_date_str)} : p.ok } }
    ELSE {}

\* Whole days from the calendar day of the first clock reading to the
\* calendar day 30 days after the order date.
DayGap(order_date) ==
    Ymd2Ord(order_date.year, order_date.month, order_date.day) + 30
        - Ymd2Ord(now.year, now.month, now.day)

DayGaps == { DayGap(order_date) : order_date \in ParsedOrderDates }

\* Seconds of the day elapsed at the first clock reading, microseconds aside.
SecondOfDay == now.hour * 3600 + now.minute * 60 + now.second

AtMidnight == SecondOfDay = 0 /\ now.microsecond = 0

\* Seconds from the first reading to the next midnight, rounded down.
SecondsToMidnight ==
    IF AtMidnight THEN 0
    ELSE IF now.microsecond = 0 THEN 86400 - SecondOfDay
    ELSE 86400 - SecondOfDay - 1

DashboardReturned == fn = "generate_dashboard_data" /\ pc = "returned"

\* The claims of the batch whose identifier passes check_order_id_format.
ValidClaims == SelectSeq(test_orders, LAMBDA o : check_order_id_format(o.order_id))

\* Exactly ddd-dddd-ddd, twelve characters and nothing else.
ExactOrderId(oid) ==
    /\ oid.kind = "str"
    /\ Len(oid.val) = 12
    /\ \A i \in {1, 2, 3, 5, 6, 7, 8, 10, 11, 12} : IsDigit(oid.val[i])
    /\ oid.val[4] = "-"
    /\ oid.val[9] = "-"

\* A date of the calendar written strictly as YYYY-MM-DD.
StrictDate(s) ==
    /\ Len(s) = 10
    /\ \A i \in {1, 2, 3, 4, 6, 7, 9, 10} : IsDigit(s[i])
    /\ s[5] = "-"
    /\ s[8] = "-"
    /\ ValidDate(ToInt(SubSeq(s, 1, 4)), ToInt(SubSeq(s, 6, 7)), ToInt(SubSeq(s, 9, 10)))

-----------------------------------------------------------------------------
(* The claims.  In a state where check_safet_deadline has returned for an
   argument that parses, DayGaps holds one number: gap <= 0 says that the
   first clock reading is at or after UTC midnight of the order date plus
   30 days. *)

\* C1: for every order date that parses and every first clock reading, the
\* status is EXPIRED exactly when the reading is at or after UTC midnight of
\* the order date plus 30 days; in particular it is EXPIRED at the deadline
\* instant itself and not EXPIRED at any earlier instant.
C1_ExpiredIffDeadlineReached ==
    \A gap \in DayGaps : ret.result.status = "EXPIRED" <=> gap <= 0

\* C1 witness: a call evaluated exactly at the deadline instant, EXPIRED.
C1_Witness_AtDeadline ==
    /\ DeadlineCallDone
    /\ AtMidnight
    /\ ret.result.status = "EXPIRED"
    /\ DayGaps = {0}

\* C2: whenever the first reading is before the deadline (diff_seconds > 0)
\* the status is URGENT exactly when days_left <= 5 and SAFE exactly when
\* days_left >= 6, and it is never EXPIRED or ERROR.
C2_UrgentIffAtMostFiveDays ==
    \A gap \in DayGaps :
        gap > 0 =>
            /\ ret.result.status \in {"URGENT", "SAFE"}
            /\ ret.result.status = "URGENT" <=> ret.result.days_left <= 5
            /\ ret.result.status = "SAFE" <=> ret.result.days_left >= 6

\* C2 witness: five days and twenty-three hours left, URGENT.
C2_Witness_FiveDays23Hours ==
    /\ DeadlineCallDone
    /\ ret.result.status = "URGENT"
    /\ ret.result.days_left = 5
    /\ ret.result.hours_left = 23
    /\ DayGaps = {6}

\* C3 (as claimed): when generate_dashboard_data returns, total_orders is
\* the number of claims whose identifier passes check_order_id_format, and
\* the claims with an invalid identifier add no detail record.
C3_TotalCountsValidIdentifiers ==
    DashboardReturned =>
        /\ ret.dashboard.total_orders = Len(ValidClaims)
        /\ Len(ret.dashboard.order_details) <= Len(ValidClaims)

\* C4 (as claimed): a claim with a valid identifier and a malformed date
\* does not make generate_dashboard_data fail.
C4_MalformedDateDoesNotAbort ==
    ~(fn = "generate_dashboard_data" /\ pc = "raised")

\* C5 (as claimed): check_order_id_format returns true exactly for the
\* strings that are ddd-dddd-ddd and nothing else; the empty string and an
\* absent value give false.
C5_TrueIffExactFormat ==
    (fn = "check_order_id_format" /\ pc = "returned") =>
        (ret.ok <=> ExactOrderId(order_id))

\* C6: generate_ai_appeal_draft returns (never raises); for an identifier
\* that fails check_order_id_format the result is the format rejection
\* whatever the reason code; otherwise, for EMPTY_BOX, DAMAGED and SWITCHED,
\* it is that reason's template around the identifier; otherwise it is the
\* unsupported-reason string, which differs from the format rejection.
C6_DraftDecidedInOrder ==
    fn = "generate_ai_appeal_draft" =>
        /\ pc = "returned"
        /\ FormatRejection # UnsupportedReason
        /\ ~check_order_id_format(order_id) => ret.draft = FormatRejection
        /\ (check_order_id_format(order_id) /\ reason_code \in {"EMPTY_BOX", "DAMAGED", "SWITCHED"}) =>
              /\ Len(ret.draft) = Len(order_id.val) + 3
              /\ SubSeq(ret.draft, 2, Len(order_id.val) + 1) = order_id.val
              /\ ret.draft[Len(ret.draft)] = TemplateBody(reason_code)
        /\ (check_order_id_format(order_id) /\ reason_code \notin {"EMPTY_BOX", "DAMAGED", "SWITCHED"}) =>
              ret.draft = UnsupportedReason

\* C6 witness: a known reason code with a malformed identifier, rejected
\* for the format.
C6_Witness_InvalidIdKnownReason ==
    /\ fn = "generate_ai_appeal_draft"
    /\ reason_code = "EMPTY_BOX"
    /\ Truthy(order_id)
    /\ ~check_order_id_format(order_id)
    /\ ret.draft = FormatRejection

\* C7 (as claimed): every argument that is not a calendar date written
\* strictly as YYYY-MM-DD gets the ERROR result.
C7_NonStrictDateIsError ==
    (DeadlineCallDone /\ ~StrictDate(order_date_str)) => ret.result = ErrorResult

\* C8: days_left is the difference to the deadline in whole days rounded
\* down and hours_left the whole hours of the rest, always in 0..23;
\* days_left >= 0 when the status is URGENT or SAFE and <= 0 when it is
\* EXPIRED; order date 2026-02-10 evaluated at 2026-02-10T00:00:00Z gives
\* 30 days, 0 hours, SAFE.
C8_DaysAndHoursAreFloors ==
    \A gap \in DayGaps :
        /\ ret.result.days_left = (IF AtMidnight THEN gap ELSE gap - 1)
        /\ ret.result.hours_left = (SecondsToMidnight \div 3600)
        /\ ret.result.hours_left >= 0 /\ ret.result.hours_left < 24
        /\ ret.result.status \in {"URGENT", "SAFE"} => ret.result.days_left >= 0
        /\ ret.result.status = "EXPIRED" => ret.result.days_left <= 0
        /\ (order_date_str = <<"2", "0", "2", "6", "-", "0", "2", "-", "1", "0">>
              /\ now = Datetime(2026, 2, 10, 0, 0, 0, 0)) =>
              /\ ret.result.days_left = 30
              /\ ret.result.hours_left = 0
              /\ ret.result.status = "SAFE"

\* C8 witness: one microsecond past the deadline: -1 day, 23 hours, EXPIRED.
C8_Witness_JustExpired ==
    /\ DeadlineCallDone
    /\ now.microsecond = 1
    /\ SecondOfDay = 0
    /\ ret.result.days_left = -1
    /\ ret.result.hours_left = 23
    /\ ret.result.status = "EXPIRED"
    /\ DayGaps = {0}

\* C9: however far the clock advances between the two readings, the
\* deadline is UTC midnight of the order date plus exactly 30 days, and the
\* result is the one of a call whose two readings are both the first one.
C9_DeadlineIgnoresSecondReading ==
    \A order_date \in ParsedOrderDates :
        /\ ToDelta(Deadline(UtcOrderDate(order_date, now2)))
              = Timedelta(Ymd2Ord(order_date.year, order_date.month, order_date.day) + 30, 0, 0)
        /\ ret.result = Classified(DiffSeconds(Deadline(UtcOrderDate(order_date, now)), now))

\* C9 witness: the second reading falls in another year, at another time of day.
C9_Witness_ClockAdvanced ==
    /\ DeadlineCallDone
    /\ now2.year # now.year
    /\ now.microsecond # 0
    /\ now.hour # 0
    /\ ret.result.status = "SAFE"

\* C10: when generate_dashboard_data returns for a non-empty batch,
\* order_details holds one record per claim with a valid identifier, in the
\* order of the batch; the three counters add up to the number of records
\* whose status is not ERROR; so counters <= records <= total_orders.
C10_DetailsAndCountersAgree ==
    (DashboardReturned /\ arg_orders # <<>>) =>
        LET d == ret.dashboard
            counted == d.expired_orders + d.urgent_orders + d.safe_orders
        IN  /\ Len(d.order_details) = Len(ValidClaims)
            /\ \A i \in 1..Len(d.order_details) :
                  /\ d.order_details[i].order_id = ValidClaims[i].order_id
                  /\ d.order_details[i].order_date = ValidClaims[i].order_date
            /\ counted = Cardinality({i \in 1..Len(d.order_details) :
                                         d.order_details[i].status # "ERROR"})
            /\ counted <= Len(d.order_details)
            /\ Len(d.order_details) <= d.total_orders

\* C10 witness: a batch of three with a malformed identifier in the middle
\* has returned two records.
C10_Witness_SkippedInTheMiddle ==
    /\ DashboardReturned
    /\ Len(arg_orders) = 3
    /\ ~check_order_id_format(arg_orders[2].order_id)
    /\ Len(ret.dashboard.order_details) = 2
    /\ ret.dashboard.expired_orders = 1
    /\ ret.dashboard.safe_orders = 1

=============================================================================
